---- MODULE Spec2Model ----
(***************************************************************************)
(* Divot.ai golf tracker: the handicap-index engine (js/utils/helpers.js,  *)
(* js/utils/constants.js, the legacy script.js controller), the            *)
(* HandicapCalculator component (js/modules/HandicapCalculator.js) and the *)
(* life of the rounds collection in the application (js/app.js,            *)
(* js/utils/storage.js): submission, clearData, loading the page again.    *)
(*                                                                         *)
(* The specifications: SpecEngine (the pure functions on given inputs),    *)
(* SpecLegacy (the legacy chart), SpecComponent (the component on a given  *)
(* collection), SpecReporters (the places that report the index), Spec     *)
(* (the rounds of the app on a running clock), SpecPractice (rounds,       *)
(* practice sessions and settings), SpecCoaching and SpecCoachingFair (the *)
(* coaching chat, without and with the assumption that a call settles).    *)
(*                                                                         *)
(* JavaScript numbers are modelled as exact rationals n/d (d > 0) together *)
(* with the three non-finite IEEE values, written with d = 0:              *)
(*   NaN = 0/0,  +Infinity = 1/0,  -Infinity = -1/0.                       *)
(* Binary rounding error of doubles is not modelled.                       *)
(***************************************************************************)
EXTENDS Integers, Sequences, FiniteSets, TLC

VARIABLES
    callRounds,     \* the rounds array handed to the index computation
    retHandicap,    \* what GolfHelpers.calculateHandicap returned for callRounds
    retLegacy,      \* what GolfTracker.calculateHandicapForRounds returned
    callHistory,    \* the handicapHistory array handed to the trend derivation
    retTrend,       \* what GolfHelpers.getHandicapTrend returned for callHistory
    callArgs,       \* <<score, courseRating, slopeRating>> handed to calculateDifferential
    retDifferential,\* what GolfHelpers.calculateDifferential returned for callArgs
    callIds,        \* the ids of the rounds of callRounds in the legacy GolfTracker
    retLegacyChart, \* the handicapHistory GolfTracker.updateHandicapChart drew
    thisRounds,     \* GolfTrackerApp.rounds (this.rounds), most recent first
    now,            \* the clock read by Date.now()
    storedRounds,   \* localStorage['golf_rounds'], parsed, or absent
    handicapText,   \* textContent of #currentHandicap
    trendText,      \* content of #handicapTrend
    chartHistory,   \* the handicap history last drawn on #handicapChart
    roundsList,     \* the items rendered in #recentRounds
    notification,   \* the last notification shown
    thisSessions,   \* GolfTrackerApp.sessions (this.sessions), most recent first
    storedSessions, \* localStorage['golf_sessions'], parsed, or absent
    thisSettings,   \* GolfTrackerApp.settings (this.settings)
    storedSettings, \* localStorage['golf_settings'], parsed, or absent
    totalSessionsText, \* textContent of #totalSessions
    headerStats,    \* textContent of #headerSessions, #headerRounds, #headerHandicap
    apiKey,         \* ClaudeAPI.apiKey and localStorage['claude_api_key']
    chat,           \* the entries of #chatContainer, in document order
    inFlight,       \* the coaching messages whose ClaudeAPI.sendMessage is awaited
    sentCount,      \* the number of coaching messages sent
    promptHandicap  \* the Current Handicap line of the last system prompt built

engineVars ==
    <<callRounds, retHandicap, retLegacy, callHistory, retTrend, callArgs, retDifferential>>

practiceVars ==
    <<thisSessions, storedSessions, thisSettings, storedSettings, totalSessionsText,
      headerStats>>

appVars ==
    <<thisRounds, now, storedRounds, handicapText, trendText, chartHistory, roundsList,
      notification, practiceVars>>

legacyVars == <<callIds, retLegacyChart>>

coachVars == <<apiKey, chat, inFlight, sentCount, promptHandicap>>

vars == <<engineVars, legacyVars, appVars, coachVars>>

----------------------------------------------------------------------------
(* JavaScript values *)

Null == [kind |-> "null"]

TypeError == [kind |-> "TypeError"]

Pending == [kind |-> "pending"]

RangeError == [kind |-> "RangeError"]

Abs(x) == IF x < 0 THEN -x ELSE x

RECURSIVE GCD(_, _)
GCD(a, b) == IF b = 0 THEN a ELSE GCD(b, a % b)

\* the number n/d in lowest terms, d # 0
Q(n, d) ==
    LET g == GCD(Abs(n), Abs(d))
        s == IF d < 0 THEN -1 ELSE 1
    IN  [kind |-> "number", n |-> s * (n \div g), d |-> s * (d \div g)]

NaN == [kind |-> "number", n |-> 0, d |-> 0]

Infinity == [kind |-> "number", n |-> 1, d |-> 0]

NegInfinity == [kind |-> "number", n |-> -1, d |-> 0]

IsNumber(v) == v.kind = "number"

IsFinite(v) == v.kind = "number" /\ v.d > 0

IsNaN(v) == v.kind = "number" /\ v.d = 0 /\ v.n = 0

Sign(x) == IF x > 0 THEN 1 ELSE IF x < 0 THEN -1 ELSE 0

SignedInfinity(s) == IF s > 0 THEN Infinity ELSE IF s < 0 THEN NegInfinity ELSE NaN

\* a + b
NumAdd(a, b) ==
    IF IsFinite(a) /\ IsFinite(b) THEN Q(a.n * b.d + b.n * a.d, a.d * b.d)
    ELSE IF IsFinite(a) THEN b
    ELSE IF IsFinite(b) THEN a
    ELSE IF a = b THEN a ELSE NaN

NumNeg(a) == [kind |-> "number", n |-> -a.n, d |-> a.d]

\* a - b
NumSub(a, b) == NumAdd(a, NumNeg(b))

\* a * b
NumMul(a, b) ==
    IF IsFinite(a) /\ IsFinite(b) THEN Q(a.n * b.n, a.d * b.d)
    ELSE IF IsNaN(a) \/ IsNaN(b) THEN NaN
    ELSE SignedInfinity(Sign(a.n) * Sign(b.n))

\* a / b (a zero divisor counts as +0)
NumDiv(a, b) ==
    IF IsNaN(a) \/ IsNaN(b) THEN NaN
    ELSE IF IsFinite(a) /\ IsFinite(b)
         THEN IF b.n = 0 THEN SignedInfinity(Sign(a.n)) ELSE Q(a.n * b.d, a.d * b.n)
    ELSE IF IsFinite(a) THEN Q(0, 1)
    ELSE IF IsFinite(b) THEN SignedInfinity(Sign(a.n) * (IF b.n < 0 THEN -1 ELSE 1))
    ELSE NaN

\* a < b; false whenever a NaN is involved
NumLess(a, b) ==
    IF IsNaN(a) \/ IsNaN(b) THEN FALSE
    ELSE IF IsFinite(a) /\ IsFinite(b) THEN a.n * b.d < b.n * a.d
    ELSE IF IsFinite(a) THEN b.n > 0
    ELSE IF IsFinite(b) THEN a.n < 0
    ELSE a.n < b.n

Int2Num(i) == Q(i, 1)

\* the operand of an arithmetic operator as a number: null counts as 0
toNumber(v) == IF v = Null THEN Q(0, 1) ELSE v

\* a rounding that sends a tie away from zero
MathRound_halfAwayFromZero(x) ==
    IF ~IsFinite(x) THEN x
    ELSE IF x.n >= 0 THEN Q((2 * x.n + x.d) \div (2 * x.d), 1)
    ELSE Q(-((2 * (-x.n) + x.d) \div (2 * x.d)), 1)

\* Math.round: the nearest integer, a tie going towards +Infinity
MathRound(x) ==
    IF IsFinite(x) THEN Q((2 * x.n + x.d) \div (2 * x.d), 1) ELSE x

MathMin(a, b) == IF a < b THEN a ELSE b

----------------------------------------------------------------------------
(* js/utils/constants.js *)

HANDICAP_RULES ==
    (1 :> [rounds |-> 1, count |-> 1]) @@
    (2 :> [rounds |-> 2, count |-> 1]) @@
    (3 :> [rounds |-> 3, count |-> 1]) @@
    (4 :> [rounds |-> 4, count |-> 1]) @@
    (5 :> [rounds |-> 5, count |-> 1]) @@
    (6 :> [rounds |-> 6, count |-> 2]) @@
    (7 :> [rounds |-> 7, count |-> 2]) @@
    (8 :> [rounds |-> 8, count |-> 2]) @@
    (9 :> [rounds |-> 9, count |-> 3]) @@
    (10 :> [rounds |-> 10, count |-> 3]) @@
    (11 :> [rounds |-> 11, count |-> 4]) @@
    (12 :> [rounds |-> 12, count |-> 4]) @@
    (13 :> [rounds |-> 13, count |-> 5]) @@
    (14 :> [rounds |-> 14, count |-> 5]) @@
    (15 :> [rounds |-> 15, count |-> 6]) @@
    (16 :> [rounds |-> 16, count |-> 6]) @@
    (17 :> [rounds |-> 17, count |-> 7]) @@
    (18 :> [rounds |-> 18, count |-> 7]) @@
    (19 :> [rounds |-> 19, count |-> 8]) @@
    (20 :> [rounds |-> 20, count |-> 9])

----------------------------------------------------------------------------
(* Array helpers *)

\* Array.prototype.slice(start, end) with 0-based, end-exclusive indices that
\* may be negative (counted from the end) and are clamped to the array
slice(arr, start, end) ==
    LET len  == Len(arr)
        from == IF start < 0 THEN (IF len + start < 0 THEN 0 ELSE len + start)
                ELSE MathMin(start, len)
        to   == IF end < 0 THEN (IF len + end < 0 THEN 0 ELSE len + end)
                ELSE MathMin(end, len)
    IN  IF to <= from THEN <<>> ELSE SubSeq(arr, from + 1, to)

\* rounds.map(round => round.differential)
mapDifferential(rounds) == [i \in 1..Len(rounds) |-> rounds[i].differential]

\* one step of sort((a, b) => a - b): x goes before the first element that is
\* greater than it
RECURSIVE sortInsert(_, _)
sortInsert(sorted, x) ==
    IF sorted = <<>> THEN <<x>>
    ELSE IF NumLess(toNumber(x), toNumber(Head(sorted))) THEN <<x>> \o sorted
    ELSE <<Head(sorted)>> \o sortInsert(Tail(sorted), x)

\* .sort((a, b) => a - b) on an array without NaN: ascending, stable
RECURSIVE sortAscending(_)
sortAscending(arr) ==
    IF arr = <<>> THEN <<>>
    ELSE sortInsert(sortAscending(SubSeq(arr, 1, Len(arr) - 1)), arr[Len(arr)])

\* .reduce((sum, x) => sum + x, 0)
RECURSIVE reduceSum(_)
reduceSum(arr) ==
    IF arr = <<>> THEN Int2Num(0)
    ELSE NumAdd(reduceSum(SubSeq(arr, 1, Len(arr) - 1)), toNumber(arr[Len(arr)]))

----------------------------------------------------------------------------
(* js/utils/helpers.js: GolfHelpers *)

\* the differential clamped at zero
calculateDifferential_clamped(score, courseRating, slopeRating) ==
    LET d == NumDiv(NumMul(NumSub(score, courseRating), Int2Num(113)), slopeRating)
    IN  IF NumLess(d, Int2Num(0)) THEN Int2Num(0) ELSE d

\* the differential refused outside the slope range 55..155
calculateDifferential_checked(score, courseRating, slopeRating) ==
    IF NumLess(slopeRating, Int2Num(55)) \/ NumLess(Int2Num(155), slopeRating)
    THEN RangeError
    ELSE NumDiv(NumMul(NumSub(score, courseRating), Int2Num(113)), slopeRating)

\* ((score - courseRating) * 113) / slopeRating
calculateDifferential(score, courseRating, slopeRating) ==
    NumDiv(NumMul(NumSub(score, courseRating), Int2Num(113)), slopeRating)

\* the table saturating one key early
handicapRule_saturate19(length) ==
    LET key == MathMin(length, 19)
    IN  IF key \in DOMAIN HANDICAP_RULES THEN HANDICAP_RULES[key]
        ELSE [kind |-> "undefined"]

\* the table read without Math.min
handicapRule_noMin(length) ==
    IF length \in DOMAIN HANDICAP_RULES THEN HANDICAP_RULES[length]
    ELSE [kind |-> "undefined"]

\* HANDICAP_RULES[Math.min(length, 20)]; a missing key reads as undefined
handicapRule(length) ==
    LET key == MathMin(length, 20)
    IN  IF key \in DOMAIN HANDICAP_RULES THEN HANDICAP_RULES[key]
        ELSE [kind |-> "undefined"]

\* the slice taken without sorting
bestDifferentials_unsorted(rounds) ==
    slice(mapDifferential(rounds), 0, handicapRule(Len(rounds)).count)

\* the slice taken after sort((a, b) => b - a)
bestDifferentials_descending(rounds) ==
    LET ascending == sortAscending(mapDifferential(rounds))
        descending == [i \in 1..Len(ascending) |-> ascending[Len(ascending) + 1 - i]]
    IN  slice(descending, 0, handicapRule(Len(rounds)).count)

\* rounds.map(...).sort(...).slice(0, roundsToCount), for a collection whose
\* rule exists
bestDifferentials(rounds) ==
    LET differentials == sortAscending(mapDifferential(rounds))
        roundsToCount == handicapRule(Len(rounds)).count
    IN  slice(differentials, 0, roundsToCount)

\* the mean returned as it is
roundToTenth_unrounded(average) == average

\* Math.round(average * 10) / 10
roundToTenth(average) ==
    NumDiv(MathRound(NumMul(average, Int2Num(10))), Int2Num(10))

\* bestDifferentials.reduce((sum, diff) => sum + diff, 0) / bestDifferentials.length
average(rounds) ==
    LET best == bestDifferentials(rounds)
    IN  NumDiv(reduceSum(best), Int2Num(Len(best)))

\* the threshold at 2 rounds
calculateHandicap_threshold2(rounds) ==
    IF Len(rounds) < 2 THEN Null
    ELSE IF "count" \notin DOMAIN handicapRule(Len(rounds)) THEN TypeError
    ELSE roundToTenth(average(rounds))

\* reading .count of a missing rule throws a TypeError
calculateHandicap(rounds) ==
    IF Len(rounds) < 3 THEN Null
    ELSE IF "count" \notin DOMAIN handicapRule(Len(rounds)) THEN TypeError
    ELSE roundToTenth(average(rounds))

RECURSIVE Pow10(_)
Pow10(e) == IF e = 0 THEN 1 ELSE 10 * Pow10(e - 1)

calculateAverage(numbers, decimals) ==
    IF Len(numbers) = 0 THEN Int2Num(0)
    ELSE LET sum == reduceSum(numbers)
             p   == Int2Num(Pow10(decimals))
         IN  NumDiv(MathRound(NumMul(NumDiv(sum, Int2Num(Len(numbers))), p)), p)

\* the thresholds taken inclusively
getHandicapTrend_inclusive(handicapHistory) ==
    IF Len(handicapHistory) < 2 THEN "stable"
    ELSE LET recent == slice(handicapHistory, -3, Len(handicapHistory))
             older  == slice(handicapHistory, -6, -3)
         IN  IF Len(older) = 0 THEN "stable"
             ELSE LET difference == NumSub(calculateAverage(recent, 1),
                                           calculateAverage(older, 1))
                  IN  IF ~NumLess(Q(-1, 2), difference) THEN "improving"
                      ELSE IF ~NumLess(difference, Q(1, 2)) THEN "declining"
                      ELSE "stable"

\* the derivation without its empty-window check
getHandicapTrend_noEmptyCheck(handicapHistory) ==
    IF Len(handicapHistory) < 2 THEN "stable"
    ELSE LET recent == slice(handicapHistory, -3, Len(handicapHistory))
             older  == slice(handicapHistory, -6, -3)
             difference == NumSub(calculateAverage(recent, 1),
                                  calculateAverage(older, 1))
         IN  IF NumLess(difference, Q(-1, 2)) THEN "improving"
             ELSE IF NumLess(Q(1, 2), difference) THEN "declining"
             ELSE "stable"

getHandicapTrend(handicapHistory) ==
    IF Len(handicapHistory) < 2 THEN "stable"
    ELSE LET recent == slice(handicapHistory, -3, Len(handicapHistory))
             older  == slice(handicapHistory, -6, -3)
         IN  IF Len(older) = 0 THEN "stable"
             ELSE LET recentAvg  == calculateAverage(recent, 1)
                      olderAvg   == calculateAverage(older, 1)
                      difference == NumSub(recentAvg, olderAvg)
                  IN  IF NumLess(difference, Q(-1, 2)) THEN "improving"
                      ELSE IF NumLess(Q(1, 2), difference) THEN "declining"
                      ELSE "stable"

----------------------------------------------------------------------------
(* script.js: the legacy GolfTracker controller *)

\* the ladder with its last step one round late
legacyRoundsToCount_lateLastStep(length) ==
    IF length <= 5 THEN 1
    ELSE IF length <= 8 THEN 2
    ELSE IF length <= 10 THEN 3
    ELSE IF length <= 12 THEN 4
    ELSE IF length <= 14 THEN 5
    ELSE IF length <= 16 THEN 6
    ELSE IF length <= 18 THEN 7
    ELSE IF length <= 20 THEN 8
    ELSE 9

\* the if/else ladder of calculateHandicapForRounds
legacyRoundsToCount(length) ==
    IF length <= 5 THEN 1
    ELSE IF length <= 8 THEN 2
    ELSE IF length <= 10 THEN 3
    ELSE IF length <= 12 THEN 4
    ELSE IF length <= 14 THEN 5
    ELSE IF length <= 16 THEN 6
    ELSE IF length <= 18 THEN 7
    ELSE IF length <= 19 THEN 8
    ELSE 9

legacyBestDifferentials(rounds) ==
    LET differentials == sortAscending(mapDifferential(rounds))
    IN  slice(differentials, 0, legacyRoundsToCount(Len(rounds)))

legacyAverage(rounds) ==
    LET best == legacyBestDifferentials(rounds)
    IN  NumDiv(reduceSum(best), Int2Num(Len(best)))

calculateHandicapForRounds(rounds) ==
    IF Len(rounds) < 3 THEN Null
    ELSE NumDiv(MathRound(NumMul(legacyAverage(rounds), Int2Num(10))), Int2Num(10))

reverse(arr) == [i \in 1..Len(arr) |-> arr[Len(arr) + 1 - i]]

\* rounds.filter(pred) for the predicate keep[i] on the i-th element
RECURSIVE filterBy(_, _)
filterBy(arr, keep) ==
    IF arr = <<>> THEN <<>>
    ELSE LET rest == filterBy(Tail(arr), Tail(keep))
         IN  IF Head(keep) THEN <<Head(arr)>> \o rest ELSE rest

\* the loop of GolfTracker.updateHandicapChart, up to the prefix of `upto`
\* rounds of recentRounds: tempRounds are the rounds of this.rounds whose id
\* is the id of a round of the prefix
RECURSIVE legacyHandicapHistory(_, _, _)
legacyHandicapHistory(rounds, recentRounds, upto) ==
    IF upto < 3 THEN <<>>
    ELSE LET roundsForHandicap == slice(recentRounds, 0, upto)
             tempRounds ==
                 filterBy(rounds,
                          [i \in 1..Len(rounds) |->
                              \E j \in 1..Len(roundsForHandicap) :
                                  roundsForHandicap[j].id = rounds[i].id])
             handicap == calculateHandicapForRounds(tempRounds)
             earlier == legacyHandicapHistory(rounds, recentRounds, upto - 1)
         IN  IF handicap # Null THEN Append(earlier, handicap) ELSE earlier

\* GolfTracker.updateHandicapChart: the history it draws; fewer than 3 rounds
\* leave the canvas as it is
updateHandicapChart(rounds, drawn) ==
    IF Len(rounds) < 3 THEN drawn
    ELSE LET recentRounds == reverse(slice(rounds, 0, 20))
         IN  legacyHandicapHistory(rounds, recentRounds, Len(recentRounds))

----------------------------------------------------------------------------
(* Inputs of the engine *)

\* longest collection in which every round's differential is chosen freely
MaxFreeRounds == 4

\* longest collection of the patterned family (beyond the table's last key)
MaxPatternRounds == 21

\* longest collection a caller reorders between two calls
MaxReorderLen == 6

\* longest index sequence handed to the trend derivation
MaxHistoryLen == 7

\* -2.25 and 0.05 are ties of the rounding, 10/3 has no finite decimal form
FreeDifferentials == {Q(-9, 4), Q(1, 20), Q(10, 3), Q(8, 1)}

\* <<base, step>> of a patterned collection
PatternShapes == {<<Q(5, 1), Q(1, 1)>>, <<Q(-3, 1), Q(1, 2)>>, <<Q(5, 1), Q(1, 3)>>}

PatternMults == {1, 3}

Round(differential) == [differential |-> differential]

\* all arrays over S of length 0..maxLen
ArraysOver(S, maxLen) == UNION {[1..k -> S] : k \in 0..maxLen}

\* n rounds whose i-th differential is base + step * ((i * mult) mod n)
PatternRounds(n, base, step, mult) ==
    [i \in 1..n |-> Round(NumAdd(base, NumMul(step, Int2Num((i * mult) % n))))]

\* the two collections of the specification's examples
ExampleRounds ==
    { [i \in 1..5 |-> Round(Int2Num(<<10, 12, 8, 15, 20>>[i]))],
      [i \in 1..9 |-> Round(Int2Num(i + 4))] }

\* collections whose best round was played to the course rating: the lowest
\* differential, and with it the index of three rounds, is 0
LevelRounds ==
    { [i \in 1..3 |-> Round(Int2Num(<<4, 0, 8>>[i]))] }

RoundInputs ==
    {[i \in 1..Len(a) |-> Round(a[i])] : a \in ArraysOver(FreeDifferentials, MaxFreeRounds)}
    \cup LevelRounds
    \cup {PatternRounds(n, sh[1], sh[2], m) :
            n \in 1..MaxPatternRounds, sh \in PatternShapes, m \in PatternMults}
    \cup ExampleRounds

\* index values 9.5, 10.0 and 10.6
TrendValues == {Q(95, 10), Q(10, 1), Q(106, 10)}

ExampleHistories ==
    { [i \in 1..6 |-> Q(<<200, 195, 190, 180, 175, 170>>[i], 10)],
      [i \in 1..6 |-> Int2Num(10)],
      <<Int2Num(20), Int2Num(10), Int2Num(10), Int2Num(10)>>,
      <<Int2Num(-3), Q(-25, 10), Q(-1, 10), Q(-2, 10), Int2Num(0)>> }

HistoryInputs == ArraysOver(TrendValues, MaxHistoryLen) \cup ExampleHistories

\* scores, course ratings and slope ratings inside and outside the ranges of
\* VALIDATION_RULES: slope 0, 54, 156 and -113 are outside 55..155
DifferentialArgs ==
    {<<Int2Num(s), c, Int2Num(p)>> :
        s \in {0, 70, 72, 85, 201},
        c \in {Int2Num(70), Int2Num(72), Q(145, 2)},
        p \in {0, 54, 55, 113, 155, 156, -113}}

\* the ids Date.now() gave the n rounds of a collection kept most recent
\* first: a later submission never has a smaller id, and two submissions in
\* the same millisecond share theirs. Either all ids differ (shared = 0) or
\* rounds `shared` and `shared + 1` have the same one.
legacyIds(n, shared) ==
    [i \in 1..n |-> (n - i) + (IF shared > 0 /\ i > shared THEN 1 ELSE 0)]

\* no API key stored, an empty chat, no system prompt built
CoachingStart ==
    /\ apiKey = Null
    /\ chat = <<>>
    /\ inFlight = {}
    /\ sentCount = 0
    /\ promptHandicap = Pending

LegacyStart ==
    /\ callIds = <<>>
    /\ retLegacyChart = Pending

LegacyIdInputs(n) == {legacyIds(n, shared) : shared \in 0..(n - 1)}

withIds(rounds, ids) ==
    [i \in 1..Len(rounds) |-> [id |-> ids[i], differential |-> rounds[i].differential]]

swap(arr, i, j) ==
    [k \in 1..Len(arr) |-> IF k = i THEN arr[j] ELSE IF k = j THEN arr[i] ELSE arr[k]]

----------------------------------------------------------------------------
(* Strings read from form fields, as sequences of characters *)

Digits == <<"0", "1", "2", "3", "4", "5", "6", "7", "8", "9">>

IsDigit(c) == \E v \in 1..10 : Digits[v] = c

DigitValue(c) == (CHOOSE v \in 1..10 : Digits[v] = c) - 1

\* the number of leading decimal digits of str
RECURSIVE leadingDigits(_)
leadingDigits(str) ==
    IF str = <<>> \/ ~IsDigit(Head(str)) THEN 0 ELSE 1 + leadingDigits(Tail(str))

\* the value of the digit string str
RECURSIVE digitsValue(_)
digitsValue(str) ==
    IF str = <<>> THEN 0
    ELSE 10 * digitsValue(SubSeq(str, 1, Len(str) - 1)) + DigitValue(str[Len(str)])

hasSign(str) == str # <<>> /\ Head(str) \in {"-", "+"}

unsigned(str) == IF hasSign(str) THEN Tail(str) ELSE str

signOf(str) == IF str # <<>> /\ Head(str) = "-" THEN -1 ELSE 1

\* parseInt(str): an optional sign and the leading digits, NaN without a digit
\* (leading white space and radix prefixes are not modelled)
parseInt(str) ==
    LET body == unsigned(str)
        k    == leadingDigits(body)
    IN  IF k = 0 THEN NaN
        ELSE Q(signOf(str) * digitsValue(SubSeq(body, 1, k)), 1)

\* parseFloat(str): an optional sign, digits, and a fraction after a point; NaN
\* without a digit (exponents and the literal Infinity are not modelled)
parseFloat(str) ==
    LET body == unsigned(str)
        k    == leadingDigits(body)
        rest == SubSeq(body, k + 1, Len(body))
        f    == IF rest # <<>> /\ Head(rest) = "." THEN leadingDigits(Tail(rest)) ELSE 0
    IN  IF k = 0 /\ f = 0 THEN NaN
        ELSE Q(signOf(str) * (digitsValue(SubSeq(body, 1, k)) * Pow10(f)
                              + digitsValue(SubSeq(rest, 2, f + 1))),
               Pow10(f))

----------------------------------------------------------------------------
(* js/utils/storage.js and JSON *)

Absent == [kind |-> "absent"]

DEFAULT_SETTINGS ==
    [defaultDuration |-> Q(60, 1), theme |-> "dark", notifications |-> "none"]

\* JSON.stringify writes a non-finite number as null
jsonValue(v) == IF v.kind = "number" /\ ~IsFinite(v) THEN Null ELSE v

\* JSON.parse(JSON.stringify(round))
jsonRound(r) ==
    [id           |-> r.id,
     courseRating |-> jsonValue(r.courseRating),
     slopeRating  |-> jsonValue(r.slopeRating),
     totalScore   |-> jsonValue(r.totalScore),
     par          |-> jsonValue(r.par),
     differential |-> jsonValue(r.differential)]

\* StorageManager.setRounds(rounds): what getRounds would read back
\* (localStorage is taken to accept every write)
setRounds(rs) == [kind |-> "stored", value |-> [i \in 1..Len(rs) |-> jsonRound(rs[i])]]

\* StorageManager.getRounds(): the parsed item, [] for a missing key
getRounds(stored) == IF stored = Absent THEN <<>> ELSE stored.value

\* JSON.parse(JSON.stringify(session))
jsonSession(session) ==
    [focus    |-> session.focus,
     duration |-> jsonValue(session.duration),
     ballsHit |-> jsonValue(session.ballsHit),
     rating   |-> jsonValue(session.rating)]

\* StorageManager.setSessions(sessions): what getSessions would read back
setSessions(ss) ==
    [kind |-> "stored", value |-> [i \in 1..Len(ss) |-> jsonSession(ss[i])]]

\* StorageManager.getSessions()
getSessions(stored) == IF stored = Absent THEN <<>> ELSE stored.value

\* StorageManager.setSettings(settings)
setSettings(settings) ==
    [kind |-> "stored",
     value |-> [settings EXCEPT !.defaultDuration = jsonValue(@)]]

\* { ...DEFAULT_SETTINGS, ...StorageManager.getSettings() }: a stored settings
\* object has the three keys of the defaults
loadSettings(stored) == IF stored = Absent THEN DEFAULT_SETTINGS ELSE stored.value

----------------------------------------------------------------------------
(* js/modules/HandicapCalculator.js *)

Text(str) == [kind |-> "string", value |-> str]

\* every order of arr
ordersOf(arr) ==
    LET n == Len(arr)
    IN  {[i \in 1..n |-> arr[f[i]]] :
            f \in {g \in [1..n -> 1..n] : \A a, b \in 1..n : a # b => g[a] # g[b]}}

hasNaNDifferential(data) == \E i \in 1..Len(data) : IsNaN(data[i].differential)

\* what GolfHelpers.calculateHandicap(data) can return: with a NaN among the
\* differentials (a, b) => a - b is no consistent comparator and the order
\* after sort is implementation-defined
calculateHandicapOutcomes(data) ==
    IF ~hasNaNDifferential(data) THEN {calculateHandicap(data)}
    ELSE IF Len(data) < 3 THEN {Null}
    ELSE LET count == handicapRule(Len(data)).count
         IN  {roundToTenth(NumDiv(reduceSum(slice(p, 0, count)), Int2Num(count))) :
                 p \in ordersOf(mapDifferential(data))}

\* updateDisplay computing on the window of the 20 most recent rounds
updateDisplayOutcomes_recent20(data) ==
    IF Len(data) = 0
    THEN {<<Text("N/A"), [text |-> "No rounds recorded yet", rounds |-> 0]>>}
    ELSE {IF handicap # Null
          THEN <<handicap, [text |-> "Based on rounds", rounds |-> Len(data)]>>
          ELSE <<Text("N/A"), [text |-> "Need at least 3 rounds for handicap", rounds |-> 0]>> :
             handicap \in calculateHandicapOutcomes(slice(data, 0, 20))}

\* HandicapCalculator.updateDisplay: <<handicapElement.textContent, trend text>>
updateDisplayOutcomes(data) ==
    IF Len(data) = 0
    THEN {<<Text("N/A"), [text |-> "No rounds recorded yet", rounds |-> 0]>>}
    ELSE {IF handicap # Null
          THEN <<handicap, [text |-> "Based on rounds", rounds |-> Len(data)]>>
          ELSE <<Text("N/A"), [text |-> "Need at least 3 rounds for handicap", rounds |-> 0]>> :
             handicap \in calculateHandicapOutcomes(data)}

\* the loop of HandicapCalculator.updateChart over recentRounds.slice(0, i + 1),
\* up to the prefix of `upto` rounds
RECURSIVE handicapHistories(_, _)
handicapHistories(recentRounds, upto) ==
    IF upto < 3 THEN {<<>>}
    ELSE UNION {{IF handicap # Null THEN Append(h, handicap) ELSE h :
                    handicap \in calculateHandicapOutcomes(slice(recentRounds, 0, upto))} :
                  h \in handicapHistories(recentRounds, upto - 1)}

\* HandicapCalculator.updateChart: the histories it can draw; fewer than 3
\* rounds leave the canvas as it is
updateChartOutcomes(data, drawn) ==
    IF Len(data) < 3 THEN {drawn}
    ELSE LET recentRounds == reverse(slice(data, 0, 20))
         IN  handicapHistories(recentRounds, Len(recentRounds))

\* The array handed to a function is shared with the caller. The operators
\* below follow the arrays a function allocates and the ones it changes in
\* place, and give the caller's array as the function leaves it.

\* calculateHandicap ordering the array it was handed
calculateHandicapLeaves_sortInPlace(rounds) ==
    IF Len(rounds) < 3 THEN rounds
    ELSE LET differentials == sortAscending(mapDifferential(rounds))
         IN  [i \in 1..Len(rounds) |-> [rounds[i] EXCEPT !.differential = differentials[i]]]

\* GolfHelpers.calculateHandicap: map() allocates differentials, sort() orders
\* that array in place, slice() allocates bestDifferentials
calculateHandicapLeaves(rounds) ==
    IF Len(rounds) < 3 THEN rounds
    ELSE LET heap0 == [rounds |-> rounds]
             heap1 == [rounds |-> heap0.rounds,
                       differentials |-> mapDifferential(heap0.rounds)]
             heap2 == [heap1 EXCEPT !.differentials = sortAscending(@)]
         IN  heap2.rounds

\* HandicapCalculator.updateDisplay hands this.data to calculateHandicap
updateDisplayLeaves(data) ==
    IF Len(data) = 0 THEN data ELSE calculateHandicapLeaves(data)

\* updateChart reversing this.data itself
updateChartLeaves_reverseInPlace(data) ==
    IF Len(data) < 3 THEN data ELSE reverse(data)

\* HandicapCalculator.updateChart: slice(0, 20) allocates recentRounds,
\* reverse() reverses that array in place, every slice(0, i + 1) allocates the
\* array handed to calculateHandicap
updateChartLeaves(data) ==
    IF Len(data) < 3 THEN data
    ELSE LET heap0 == [data |-> data]
             heap1 == [data |-> heap0.data, recentRounds |-> slice(heap0.data, 0, 20)]
             heap2 == [heap1 EXCEPT !.recentRounds = reverse(@)]
         IN  heap2.data

\* HandicapCalculator.getHandicapTrend: every slice(0, i + 1) allocates the
\* array handed to calculateHandicap
getHandicapTrendLeaves(data) ==
    IF Len(data) < 6 THEN data
    ELSE LET heap0 == [data |-> data]
             heap1 == [data |-> heap0.data,
                       roundsForHandicap |-> slice(heap0.data, 0, Len(heap0.data))]
         IN  heap1.data

\* HandicapCalculator.render: updateDisplay, then updateChart
renderLeaves(data) == updateChartLeaves(updateDisplayLeaves(data))

----------------------------------------------------------------------------
(* js/app.js: GolfTrackerApp *)

\* most rounds a run submits
MaxRounds == 3

\* last instant of the clock
MaxClock == 1

TotalScoreInputs == {<<"7", "0">>}

CourseRatingInputs == {<<"7", "2", ".", "5">>}

SlopeRatingInputs == {<<"1", "3", "0">>, <<"0">>}

ParInputs == {<<"7", "2">>}

\* the numeric fields of the round form; date, course name, weather and notes
\* are free text without effect on any computation and are left out
RoundForms ==
    [totalScore : TotalScoreInputs, courseRating : CourseRatingInputs,
     slopeRating : SlopeRatingInputs, par : ParInputs]

\* most practice sessions a run logs
MaxSessions == 1

\* the focus and the numeric fields of the practice form; the id, date, clubs
\* and summary of a session have no effect on any figure of the page and are
\* left out
PracticeForms ==
    [focus : {"putting"}, duration : {<<"6", "0">>}, ballsHit : {<<"5", "0">>},
     rating : {<<"4">>}]

\* the settings form, its API key field left empty
SettingsForms ==
    [defaultDuration : {<<"4", "5">>}, theme : {"light"}, notifications : {"none"}]

\* content of an element that no script has written yet
InitialMarkup == [kind |-> "markup"]

\* number.toFixed(1): the sign apart, the nearest tenth, the larger at a tie
toFixed1(x) ==
    IF ~IsFinite(x) THEN x
    ELSE LET m == (20 * Abs(x.n) + x.d) \div (2 * x.d)
         IN  Q(Sign(x.n) * m, 10)

\* GolfTrackerApp.renderRounds
renderRounds(rs) ==
    LET shown == slice(rs, 0, 5)
    IN  [i \in 1..Len(shown) |-> [id |-> shown[i].id, diff |-> toFixed1(shown[i].differential)]]

\* the state after construction on an empty localStorage
AppStart ==
    /\ thisRounds = <<>>
    /\ now = 0
    /\ storedRounds = Absent
    /\ handicapText = Text("N/A")
    /\ trendText = [text |-> "No rounds recorded yet", rounds |-> 0]
    /\ chartHistory = <<>>
    /\ roundsList = <<>>
    /\ notification = ""
    /\ thisSessions = <<>>
    /\ storedSessions = Absent
    /\ thisSettings = DEFAULT_SETTINGS
    /\ storedSettings = Absent
    /\ totalSessionsText = InitialMarkup
    /\ headerStats = [sessions |-> 0, rounds |-> 0, handicap |-> Text("N/A")]

\* renderRounds reads round.differential.toFixed of the rounds it shows: a
\* differential that is null (a non-finite one read back from storage) throws
\* a TypeError
renderRoundsThrows(rs) ==
    \E i \in 1..Len(slice(rs, 0, 5)) : rs[i].differential = Null

\* HandicapCalculator update(data), on the canvas `drawn`
handicapCalculatorUpdate(data, drawn) ==
    /\ \E display \in updateDisplayOutcomes(data) :
          /\ handicapText' = display[1]
          /\ trendText' = display[2]
    /\ chartHistory' \in updateChartOutcomes(updateDisplayLeaves(data), drawn)
    /\ thisRounds' = renderLeaves(data)

\* GolfTrackerApp.updateStats on this.sessions = ss, on the element content
\* `shown`: textContent of #totalSessions
updateStats(ss, shown) == IF Len(ss) = 0 THEN shown ELSE Int2Num(Len(ss))

\* headerHandicap.textContent = handicap ? handicap : 'N/A'
headerHandicapText(handicap) ==
    IF handicap = Null \/ IsNaN(handicap) \/ handicap = Int2Num(0)
    THEN Text("N/A")
    ELSE handicap

\* GolfTrackerApp.updateHeaderStats on this.sessions = ss and this.rounds = rs
updateHeaderStats(ss, rs) ==
    {[sessions |-> Len(ss), rounds |-> Len(rs), handicap |-> headerHandicapText(handicap)] :
        handicap \in calculateHandicapOutcomes(rs)}

\* GolfTrackerApp.updateUI on this.sessions = ss and this.rounds = rs:
\* updateStats, renderSessions, renderRounds, then
\* handicapCalculator.update(this.rounds); a TypeError in renderRounds leaves
\* updateUI before the list of rounds or the calculator has changed
updateUI(ss, rs) ==
    /\ totalSessionsText' = updateStats(ss, totalSessionsText)
    /\ IF renderRoundsThrows(rs)
       THEN /\ thisRounds' = rs
            /\ UNCHANGED <<roundsList, handicapText, trendText, chartHistory>>
       ELSE /\ roundsList' = renderRounds(rs)
            /\ handicapCalculatorUpdate(rs, chartHistory)

\* the round added at the end
unshift_push(arr, x) == Append(arr, x)

\* arr.unshift(x)
unshift(arr, x) == <<x>> \o arr

\* the statements after updateUI() run only when it returns
handleRoundSubmit ==
    /\ Len(thisRounds) < MaxRounds
    /\ \E form \in RoundForms :
          LET round ==
                [id           |-> now,
                 courseRating |-> parseFloat(form.courseRating),
                 slopeRating  |-> parseInt(form.slopeRating),
                 totalScore   |-> parseInt(form.totalScore),
                 par          |-> parseInt(form.par),
                 differential |-> calculateDifferential(parseInt(form.totalScore),
                                                        parseFloat(form.courseRating),
                                                        parseInt(form.slopeRating))]
              unshifted == unshift(thisRounds, round)
          IN  /\ storedRounds' = setRounds(unshifted)
              /\ updateUI(thisSessions, unshifted)
              /\ notification' = IF renderRoundsThrows(unshifted) THEN notification
                                 ELSE "Round logged successfully!"
    /\ UNCHANGED <<now, thisSessions, storedSessions, thisSettings, storedSettings,
                   headerStats>>
    /\ UNCHANGED engineVars
    /\ UNCHANGED legacyVars
    /\ UNCHANGED coachVars

\* StorageManager.clearAll leaving the settings key in place
clearAll_keepSettings(stored) == [stored EXCEPT !.sessions = Absent, !.rounds = Absent]

\* StorageManager.clearAll: removeItem for every key of STORAGE_KEYS
clearAll(stored) == [sessions |-> Absent, rounds |-> Absent, settings |-> Absent]

\* the statements after handlePracticeSubmit's updateUI() run only when it
\* returns
handlePracticeSubmit ==
    /\ Len(thisSessions) < MaxSessions
    /\ \E form \in PracticeForms :
          LET session ==
                [focus    |-> form.focus,
                 duration |-> parseInt(form.duration),
                 ballsHit |-> parseInt(form.ballsHit),
                 rating   |-> parseInt(form.rating)]
              unshifted == unshift(thisSessions, session)
          IN  /\ thisSessions' = unshifted
              /\ storedSessions' = setSessions(unshifted)
              /\ updateUI(unshifted, thisRounds)
              /\ notification' = IF renderRoundsThrows(thisRounds) THEN notification
                                 ELSE "Practice session logged successfully!"
    /\ UNCHANGED <<now, storedRounds, thisSettings, storedSettings, headerStats>>
    /\ UNCHANGED engineVars
    /\ UNCHANGED legacyVars
    /\ UNCHANGED coachVars

handleSettingsSubmit ==
    /\ \E form \in SettingsForms :
          LET settings ==
                [defaultDuration |-> parseInt(form.defaultDuration),
                 theme           |-> form.theme,
                 notifications   |-> form.notifications]
          IN  /\ thisSettings' = settings
              /\ storedSettings' = setSettings(settings)
    /\ notification' = "Settings saved successfully!"
    /\ UNCHANGED <<thisRounds, now, storedRounds, handicapText, trendText, chartHistory,
                   roundsList, thisSessions, storedSessions, totalSessionsText,
                   headerStats>>
    /\ UNCHANGED engineVars
    /\ UNCHANGED legacyVars
    /\ UNCHANGED coachVars

\* GolfTrackerApp.clearData: confirm() answered by the user
clearData ==
    /\ \E confirmed \in BOOLEAN :
          IF confirmed
          THEN LET cleared == clearAll([sessions |-> storedSessions,
                                        rounds |-> storedRounds,
                                        settings |-> storedSettings])
               IN  /\ storedSessions' = cleared.sessions
                   /\ storedRounds' = cleared.rounds
                   /\ storedSettings' = cleared.settings
                   /\ thisSessions' = <<>>
                   /\ thisSettings' = DEFAULT_SETTINGS
                   /\ updateUI(<<>>, <<>>)
                   /\ notification' = "All data has been cleared"
          ELSE UNCHANGED <<thisRounds, storedRounds, handicapText, trendText, chartHistory,
                           roundsList, notification, thisSessions, storedSessions,
                           thisSettings, storedSettings, totalSessionsText>>
    /\ UNCHANGED <<now, headerStats>>
    /\ UNCHANGED engineVars
    /\ UNCHANGED legacyVars
    /\ UNCHANGED coachVars

\* GolfTrackerApp.handleTabChange, the listener of the tab manager's
\* tabChanged event: the dashboard tab runs updateDashboard, the rounds tab
\* renderRounds; a TypeError leaves the page as it is
TabIds == {"dashboard", "rounds"}

handleTabChange ==
    /\ \E tabId \in TabIds :
          IF tabId = "dashboard"
          THEN /\ totalSessionsText' = updateStats(thisSessions, totalSessionsText)
               /\ handicapCalculatorUpdate(thisRounds, chartHistory)
               /\ UNCHANGED roundsList
          ELSE /\ roundsList' = IF renderRoundsThrows(thisRounds) THEN roundsList
                                ELSE renderRounds(thisRounds)
               /\ UNCHANGED <<thisRounds, handicapText, trendText, chartHistory,
                              totalSessionsText>>
    /\ UNCHANGED <<now, storedRounds, notification, thisSessions, storedSessions,
                   thisSettings, storedSettings, headerStats>>
    /\ UNCHANGED engineVars
    /\ UNCHANGED legacyVars
    /\ UNCHANGED coachVars

\* the page loaded again: the constructor and init() on the stored data.
\* loadData reads the three keys, initializeComponents renders the calculator
\* on a fresh canvas, initializeInteractiveFeatures writes the header,
\* updateUI follows; a TypeError in it is caught by init()
Reload ==
    /\ LET loaded == getRounds(storedRounds)
           sessions == getSessions(storedSessions)
       IN  /\ thisSessions' = sessions
           /\ thisSettings' = loadSettings(storedSettings)
           /\ handicapCalculatorUpdate(loaded, <<>>)
           /\ headerStats' \in updateHeaderStats(sessions, loaded)
           /\ totalSessionsText' = updateStats(sessions, InitialMarkup)
           /\ IF renderRoundsThrows(loaded)
              THEN /\ roundsList' = <<>>
                   /\ notification' = "Failed to initialize application"
              ELSE /\ roundsList' = renderRounds(loaded)
                   /\ notification' = ""
    /\ UNCHANGED <<now, storedRounds, storedSessions, storedSettings>>
    /\ UNCHANGED engineVars
    /\ UNCHANGED legacyVars
    /\ UNCHANGED coachVars

\* time passes
Tick ==
    /\ now < MaxClock
    /\ now' = now + 1
    /\ UNCHANGED <<thisRounds, storedRounds, handicapText, trendText, chartHistory,
                   roundsList, notification>>
    /\ UNCHANGED practiceVars
    /\ UNCHANGED engineVars
    /\ UNCHANGED legacyVars
    /\ UNCHANGED coachVars

Init ==
    /\ AppStart
    /\ LegacyStart
    /\ CoachingStart
    /\ callRounds = <<>>
    /\ retHandicap = Pending
    /\ retLegacy = Pending
    /\ callHistory = <<>>
    /\ retTrend = "pending"
    /\ callArgs = <<>>
    /\ retDifferential = Pending

\* the rounds of the app, on a running clock
Next ==
    \/ handleRoundSubmit
    \/ clearData
    \/ handleTabChange
    \/ Reload
    \/ Tick

Spec == Init /\ [][Next]_vars

\* the rounds, practice sessions and settings of the app, all entries
\* submitted within one instant of the clock
PracticeNext ==
    \/ handleRoundSubmit
    \/ handlePracticeSubmit
    \/ handleSettingsSubmit
    \/ clearData
    \/ handleTabChange
    \/ Reload

SpecPractice == Init /\ [][PracticeNext]_vars

----------------------------------------------------------------------------
(* js/app.js and ClaudeAPI: the coaching chat, the specifications            *)
(* SpecCoaching and SpecCoachingFair. A string is the sequence of its words  *)
(* and blanks.                                                               *)

\* most coaching messages a run sends
MaxMessages == 2

\* what the user types into #coachingInput
CoachingInputs ==
    {<<" ">>, <<" ", "my", "Handicap">>, <<"improve">>, <<"hello">>}

\* the texts the service answers with
ServiceReplies == {Text("Work on your short game")}

Thrown(message) == [kind |-> "thrown", message |-> message]

\* what a failed call throws: fetch rejecting, and a response that is not ok
ServiceErrors ==
    {Thrown("Failed to fetch"), Thrown("Claude API error: Unknown error")}

RECURSIVE trimStart(_)
trimStart(str) ==
    IF str # <<>> /\ Head(str) = " " THEN trimStart(Tail(str)) ELSE str

\* str.trim()
trim(str) == reverse(trimStart(reverse(trimStart(str))))

lowerWord(word) ==
    CASE word = "Handicap" -> "handicap"
      [] word = "Improve" -> "improve"
      [] OTHER -> word

\* str.toLowerCase()
toLowerCase(str) == [i \in 1..Len(str) |-> lowerWord(str[i])]

\* str.includes(word)
includes(str, word) == \E i \in 1..Len(str) : str[i] = word

\* Object.keys(focusCounts): the focus areas in the order of their first
\* occurrence
RECURSIVE focusKeys(_)
focusKeys(focusAreas) ==
    IF focusAreas = <<>> THEN <<>>
    ELSE LET earlier == focusKeys(SubSeq(focusAreas, 1, Len(focusAreas) - 1))
             last == focusAreas[Len(focusAreas)]
         IN  IF \E i \in 1..Len(earlier) : earlier[i] = last THEN earlier
             ELSE Append(earlier, last)

focusCount(focusAreas, focus) ==
    Cardinality({i \in 1..Len(focusAreas) : focusAreas[i] = focus})

\* keys.reduce((a, b) => focusCounts[a] < focusCounts[b] ? a : b) on one key
\* or more
RECURSIVE leastPracticed(_, _)
leastPracticed(keys, focusAreas) ==
    IF Len(keys) = 1 THEN keys[1]
    ELSE LET a == leastPracticed(SubSeq(keys, 1, Len(keys) - 1), focusAreas)
             b == keys[Len(keys)]
         IN  IF focusCount(focusAreas, a) < focusCount(focusAreas, b) THEN a ELSE b

\* GolfTrackerApp.generateCoachingResponse(message): the text it returns, or
\* the TypeError of reduce() on the keys of an empty log
generateCoachingResponse(message, sessions, rounds) ==
    LET lowerMessage == toLowerCase(message)
    IN  IF includes(lowerMessage, "handicap") \/ includes(lowerMessage, "trend")
        THEN LET handicap == calculateHandicap(rounds)
             IN  IF handicap = Null
                 THEN Text("You need at least 3 rounds to establish a handicap")
                 ELSE [kind |-> "handicapReply", handicap |-> handicap,
                       rounds |-> Len(rounds)]
        ELSE IF includes(lowerMessage, "practice") \/ includes(lowerMessage, "drill")
        THEN [kind |-> "practiceReply", totalSessions |-> Len(sessions),
              avgRating |-> calculateAverage([i \in 1..Len(sessions) |-> sessions[i].rating], 1)]
        ELSE IF includes(lowerMessage, "weakness") \/ includes(lowerMessage, "improve")
        THEN LET focusAreas == [i \in 1..Len(sessions) |-> sessions[i].focus]
             IN  IF focusAreas = <<>>
                 THEN Thrown("Reduce of empty array with no initial value")
                 ELSE [kind |-> "focusReply",
                       focus |-> leastPracticed(focusKeys(focusAreas), focusAreas)]
        ELSE Text("I'm here to help analyze your golf game!")

\* the call made whatever the key
hasApiKey_always(key) == TRUE

\* ClaudeAPI.hasApiKey: !!this.getApiKey()
hasApiKey(key) == key # Null /\ key # Text("")

\* buildSystemPrompt: ${handicap || 'Not established (need 3+ rounds)'}
promptHandicapText(handicap) ==
    IF handicap = Null \/ IsNaN(handicap) \/ handicap = Int2Num(0)
    THEN Text("Not established (need 3+ rounds)")
    ELSE handicap

\* addMessageToChat(message, 'user') for the m-th message sent
userEntry(m, message) ==
    [message |-> m, sender |-> "user", loading |-> FALSE,
     text |-> [kind |-> "typed", words |-> message]]

\* addMessageToChat('', 'ai', true), the placeholder of the m-th message
loadingEntry(m) ==
    [message |-> m, sender |-> "ai", loading |-> TRUE, text |-> Text("Thinking")]

\* addMessageToChat(text, 'ai')
aiEntry(m, text) ==
    [message |-> m, sender |-> "ai", loading |-> FALSE, text |-> text]

\* loadingMessage.remove() for the placeholder of the m-th message
removeLoading(entries, m) ==
    filterBy(entries,
             [i \in 1..Len(entries) |-> ~(entries[i].loading /\ entries[i].message = m)])

\* `Sorry, I encountered an error: ${error.message}. Please check your API
\* key in settings.`
errorText(error) == [kind |-> "errorText", message |-> error.message]

\* the end of the try block of sendCoachingMessage
afterResponse(entries, m, response) ==
    Append(removeLoading(entries, m), aiEntry(m, response))

\* the catch block leaving the placeholder in the chat
afterError_keepLoading(entries, m, error) ==
    Append(entries, aiEntry(m, errorText(error)))

\* the catch block of sendCoachingMessage
afterError(entries, m, error) ==
    Append(removeLoading(entries, m), aiEntry(m, errorText(error)))

\* GolfTrackerApp.sendCoachingMessage up to its await, or to its end when no
\* call is made
sendCoachingMessage ==
    /\ sentCount < MaxMessages
    /\ \E input \in CoachingInputs :
          LET message == trim(input)
              m == sentCount + 1
              shown == chat \o <<userEntry(m, message), loadingEntry(m)>>
          IN  IF message = <<>>
              THEN UNCHANGED coachVars
              ELSE /\ sentCount' = m
                   /\ IF hasApiKey(apiKey)
                      THEN /\ promptHandicap' =
                                 promptHandicapText(calculateHandicap(thisRounds))
                           /\ chat' = shown
                           /\ inFlight' = inFlight \cup {m}
                      ELSE LET response ==
                                   generateCoachingResponse(message, thisSessions, thisRounds)
                           IN  /\ chat' = IF response.kind = "thrown"
                                           THEN afterError(shown, m, response)
                                           ELSE afterResponse(shown, m, response)
                               /\ UNCHANGED <<inFlight, promptHandicap>>
                   /\ UNCHANGED apiKey
    /\ UNCHANGED engineVars
    /\ UNCHANGED legacyVars
    /\ UNCHANGED appVars

\* the awaited ClaudeAPI.sendMessage returns data.content[0].text
fetchResolves ==
    /\ \E m \in inFlight, text \in ServiceReplies :
          /\ chat' = afterResponse(chat, m, text)
          /\ inFlight' = inFlight \ {m}
    /\ UNCHANGED <<apiKey, sentCount, promptHandicap>>
    /\ UNCHANGED engineVars
    /\ UNCHANGED legacyVars
    /\ UNCHANGED appVars

\* the awaited ClaudeAPI.sendMessage throws
fetchFails ==
    /\ \E m \in inFlight, error \in ServiceErrors :
          /\ chat' = afterError(chat, m, error)
          /\ inFlight' = inFlight \ {m}
    /\ UNCHANGED <<apiKey, sentCount, promptHandicap>>
    /\ UNCHANGED engineVars
    /\ UNCHANGED legacyVars
    /\ UNCHANGED appVars

\* ClaudeAPI.setApiKey(apiKey)
setApiKey ==
    /\ apiKey = Null
    /\ apiKey' = Text("sk-ant-key")
    /\ UNCHANGED <<chat, inFlight, sentCount, promptHandicap>>
    /\ UNCHANGED engineVars
    /\ UNCHANGED legacyVars
    /\ UNCHANGED appVars

CoachingNext ==
    \/ sendCoachingMessage
    \/ fetchResolves
    \/ fetchFails
    \/ setApiKey
    \/ handlePracticeSubmit

SpecCoaching == Init /\ [][CoachingNext]_vars

\* a call that is awaited settles: the browser resolves or rejects every fetch
FetchSettles == fetchResolves \/ fetchFails

SpecCoachingFair == Init /\ [][CoachingNext]_vars /\ WF_vars(FetchSettles)

----------------------------------------------------------------------------
(* The engine called by a client: the index computation on a round          *)
(* collection, the trend derivation on an index sequence                    *)

EngineInit ==
    /\ \/ callRounds \in RoundInputs /\ callHistory = <<>> /\ callArgs = <<>>
       \/ callRounds = <<>> /\ callHistory \in HistoryInputs /\ callArgs = <<>>
       \/ callRounds = <<>> /\ callHistory = <<>> /\ callArgs \in DifferentialArgs
    /\ retHandicap = Pending
    /\ retLegacy = Pending
    /\ retTrend = "pending"
    /\ retDifferential = Pending
    /\ LegacyStart
    /\ CoachingStart
    /\ AppStart

CallCalculateHandicap ==
    /\ retHandicap = Pending
    /\ retHandicap' = calculateHandicap(callRounds)
    /\ UNCHANGED <<callRounds, retLegacy, callHistory, retTrend, callArgs, retDifferential>>
    /\ UNCHANGED appVars
    /\ UNCHANGED legacyVars
    /\ UNCHANGED coachVars

CallCalculateHandicapForRounds ==
    /\ retLegacy = Pending
    /\ retLegacy' = calculateHandicapForRounds(callRounds)
    /\ UNCHANGED <<callRounds, retHandicap, callHistory, retTrend, callArgs, retDifferential>>
    /\ UNCHANGED appVars
    /\ UNCHANGED legacyVars
    /\ UNCHANGED coachVars

\* the caller exchanges two neighbouring rounds of the collection and asks
\* again; repeated, this reaches every order of the collection
ReorderAndCall ==
    /\ retHandicap # Pending
    /\ Len(callRounds) <= MaxReorderLen
    /\ \E i \in 1..(Len(callRounds) - 1) :
          /\ callRounds[i] # callRounds[i + 1]
          /\ callRounds' = swap(callRounds, i, i + 1)
    /\ retHandicap' = calculateHandicap(callRounds')
    /\ UNCHANGED <<retLegacy, callHistory, retTrend, callArgs, retDifferential>>
    /\ UNCHANGED appVars
    /\ UNCHANGED legacyVars
    /\ UNCHANGED coachVars

CallGetHandicapTrend ==
    /\ retTrend = "pending"
    /\ retTrend' = getHandicapTrend(callHistory)
    /\ UNCHANGED <<callRounds, retHandicap, retLegacy, callHistory, callArgs, retDifferential>>
    /\ UNCHANGED appVars
    /\ UNCHANGED legacyVars
    /\ UNCHANGED coachVars

CallCalculateDifferential ==
    /\ callArgs # <<>>
    /\ retDifferential = Pending
    /\ retDifferential' = calculateDifferential(callArgs[1], callArgs[2], callArgs[3])
    /\ UNCHANGED <<callRounds, retHandicap, retLegacy, callHistory, retTrend, callArgs>>
    /\ UNCHANGED appVars
    /\ UNCHANGED legacyVars
    /\ UNCHANGED coachVars

EngineNext ==
    \/ CallCalculateHandicap
    \/ CallCalculateHandicapForRounds
    \/ ReorderAndCall
    \/ CallGetHandicapTrend
    \/ CallCalculateDifferential

SpecEngine == EngineInit /\ [][EngineNext]_vars

----------------------------------------------------------------------------
(* The legacy GolfTracker's chart: the specification SpecLegacy *)

LegacyInit ==
    /\ callRounds \in RoundInputs
    /\ callHistory = <<>>
    /\ callArgs = <<>>
    /\ retHandicap = Pending
    /\ retLegacy = Pending
    /\ retTrend = "pending"
    /\ retDifferential = Pending
    /\ LegacyStart
    /\ CoachingStart
    /\ AppStart

\* the legacy GolfTracker draws its chart for callRounds, whose rounds carry
\* the ids of their submissions
CallUpdateHandicapChart ==
    /\ callIds = <<>>
    /\ callRounds # <<>>
    /\ callIds' \in LegacyIdInputs(Len(callRounds))
    /\ retLegacyChart' = updateHandicapChart(withIds(callRounds, callIds'), <<>>)
    /\ UNCHANGED engineVars
    /\ UNCHANGED appVars
    /\ UNCHANGED coachVars

LegacyNext == CallUpdateHandicapChart

SpecLegacy == LegacyInit /\ [][LegacyNext]_vars

----------------------------------------------------------------------------
(* The HandicapCalculator component driven by a client: update(data) with   *)
(* the client's array (this.data is that same array), getHandicapTrend() and *)
(* getCurrentHandicap()                                                      *)

\* update() has handed the component its data
hasData == handicapText # Pending

ComponentInit ==
    /\ callRounds \in RoundInputs
    /\ callHistory = <<>>
    /\ callArgs = <<>>
    /\ retHandicap = Pending
    /\ retLegacy = Pending
    /\ retTrend = "pending"
    /\ retDifferential = Pending
    /\ LegacyStart
    /\ CoachingStart
    /\ thisRounds = <<>>
    /\ now = 0
    /\ storedRounds = Absent
    /\ handicapText = Pending
    /\ trendText = Pending
    /\ chartHistory = <<>>
    /\ roundsList = <<>>
    /\ notification = ""
    /\ thisSessions = <<>>
    /\ storedSessions = Absent
    /\ thisSettings = DEFAULT_SETTINGS
    /\ storedSettings = Absent
    /\ totalSessionsText = InitialMarkup
    /\ headerStats = [sessions |-> 0, rounds |-> 0, handicap |-> Text("N/A")]

\* BaseComponent.update(data): this.data = data; this.render()
HandicapCalculator_update ==
    /\ \E display \in updateDisplayOutcomes(callRounds) :
          /\ handicapText' = display[1]
          /\ trendText' = display[2]
    /\ chartHistory' \in updateChartOutcomes(updateDisplayLeaves(callRounds), chartHistory)
    /\ callRounds' = renderLeaves(callRounds)
    /\ UNCHANGED <<retHandicap, retLegacy, callHistory, retTrend, callArgs, retDifferential>>
    /\ UNCHANGED <<thisRounds, now, storedRounds, roundsList, notification>>
    /\ UNCHANGED practiceVars
    /\ UNCHANGED legacyVars
    /\ UNCHANGED coachVars

\* HandicapCalculator.getHandicapTrend(): callHistory is the handicapHistory
\* it hands to GolfHelpers.getHandicapTrend
HandicapCalculator_getHandicapTrend ==
    /\ retTrend = "pending"
    /\ IF ~hasData \/ Len(callRounds) < 6
       THEN /\ retTrend' = "stable"
            /\ UNCHANGED <<callRounds, callHistory>>
       ELSE /\ callHistory' \in handicapHistories(callRounds, Len(callRounds))
            /\ retTrend' = getHandicapTrend(callHistory')
            /\ callRounds' = getHandicapTrendLeaves(callRounds)
    /\ UNCHANGED <<retHandicap, retLegacy, callArgs, retDifferential>>
    /\ UNCHANGED appVars
    /\ UNCHANGED legacyVars
    /\ UNCHANGED coachVars

\* HandicapCalculator.getCurrentHandicap()
HandicapCalculator_getCurrentHandicap ==
    /\ retHandicap = Pending
    /\ IF hasData
       THEN /\ retHandicap' \in calculateHandicapOutcomes(callRounds)
            /\ callRounds' = calculateHandicapLeaves(callRounds)
       ELSE /\ retHandicap' = Null
            /\ UNCHANGED callRounds
    /\ UNCHANGED <<retLegacy, callHistory, retTrend, callArgs, retDifferential>>
    /\ UNCHANGED appVars
    /\ UNCHANGED legacyVars
    /\ UNCHANGED coachVars

\* GolfTrackerApp.updateHeaderStats() of an app whose rounds are callRounds
GolfTrackerApp_updateHeaderStats ==
    /\ headerStats' \in updateHeaderStats(thisSessions, callRounds)
    /\ callRounds' = calculateHandicapLeaves(callRounds)
    /\ UNCHANGED <<retHandicap, retLegacy, callHistory, retTrend, callArgs, retDifferential>>
    /\ UNCHANGED <<thisRounds, now, storedRounds, handicapText, trendText, chartHistory,
                   roundsList, notification, thisSessions, storedSessions, thisSettings,
                   storedSettings, totalSessionsText>>
    /\ UNCHANGED legacyVars
    /\ UNCHANGED coachVars

\* ClaudeAPI.buildSystemPrompt(context) for the context sendCoachingMessage
\* prepares from the rounds callRounds
ClaudeAPI_buildSystemPrompt ==
    /\ \E handicap \in calculateHandicapOutcomes(callRounds) :
          promptHandicap' = promptHandicapText(handicap)
    /\ callRounds' = calculateHandicapLeaves(callRounds)
    /\ UNCHANGED <<retHandicap, retLegacy, callHistory, retTrend, callArgs, retDifferential>>
    /\ UNCHANGED appVars
    /\ UNCHANGED legacyVars
    /\ UNCHANGED <<apiKey, chat, inFlight, sentCount>>

ComponentNext ==
    \/ HandicapCalculator_update
    \/ HandicapCalculator_getHandicapTrend
    \/ HandicapCalculator_getCurrentHandicap

SpecComponent == ComponentInit /\ [][ComponentNext]_vars

\* the three places that report the index of a given collection: the
\* dashboard, the header and the system prompt
ReportersNext ==
    \/ HandicapCalculator_update
    \/ GolfTrackerApp_updateHeaderStats
    \/ ClaudeAPI_buildSystemPrompt

SpecReporters == ComponentInit /\ [][ReportersNext]_vars

----------------------------------------------------------------------------
(* Properties of the index computation *)

\* the best-count table as the specification states it
StatedBestCount(n) ==
    IF n <= 5 THEN 1
    ELSE IF n <= 8 THEN 2
    ELSE IF n <= 10 THEN 3
    ELSE IF n <= 12 THEN 4
    ELSE IF n <= 14 THEN 5
    ELSE IF n <= 16 THEN 6
    ELSE IF n <= 18 THEN 7
    ELSE IF n = 19 THEN 8
    ELSE 9

RemoveAt(arr, i) == SubSeq(arr, 1, i - 1) \o SubSeq(arr, i + 1, Len(arr))

\* the sum of the k smallest values, taking out a minimum k times
RECURSIVE SumOfSmallest(_, _)
SumOfSmallest(values, k) ==
    IF k = 0 THEN Int2Num(0)
    ELSE LET m == CHOOSE i \in 1..Len(values) :
                     \A j \in 1..Len(values) : ~NumLess(values[j], values[i])
         IN  NumAdd(values[m], SumOfSmallest(RemoveAt(values, m), k - 1))

\* the arithmetic mean of the StatedBestCount smallest differentials
StatedMean(rounds) ==
    LET k == StatedBestCount(Len(rounds))
    IN  NumDiv(SumOfSmallest([i \in 1..Len(rounds) |-> rounds[i].differential], k),
               Int2Num(k))

IsTenth(x) == IsFinite(x) /\ (10 * x.n) % x.d = 0

\* |r - x| <= 0.05
WithinHalfTenth(r, x) ==
    /\ ~NumLess(Q(1, 20), NumSub(r, x))
    /\ ~NumLess(Q(1, 20), NumSub(x, r))

\* 10 * x lies exactly halfway between two integers
IsTie(x) == IsFinite(x) /\ (20 * x.n) % x.d = 0 /\ ((20 * x.n) \div x.d) % 2 = 1

Called == retHandicap # Pending

\* C1: calculateHandicap and the legacy calculateHandicapForRounds return null
\* for every collection of 0, 1 or 2 rounds and a finite number for every
\* collection of 3 or more rounds with finite differentials.
C1_ThresholdThree ==
    /\ Called =>
          IF Len(callRounds) < 3 THEN retHandicap = Null ELSE IsFinite(retHandicap)
    /\ retLegacy # Pending =>
          IF Len(callRounds) < 3 THEN retLegacy = Null ELSE IsFinite(retLegacy)

C1_Witness ==
    /\ Len(callRounds) = 2
    /\ callRounds[1].differential # callRounds[2].differential
    /\ retHandicap = Null
    /\ retLegacy = Null

\* C2: for n >= 3 rounds the number of lowest differentials averaged is 1 for
\* n in 3..5, 2 for 6..8, 3 for 9..10, 4 for 11..12, 5 for 13..14, 6 for
\* 15..16, 7 for 17..18, 8 for 19 and 9 for every n >= 20.
C2_BestCountTable ==
    (Called /\ Len(callRounds) >= 3) =>
        /\ "count" \in DOMAIN handicapRule(Len(callRounds))
        /\ Len(bestDifferentials(callRounds)) = StatedBestCount(Len(callRounds))

C2_Witness ==
    /\ Called
    /\ Len(callRounds) = 21
    /\ Len(bestDifferentials(callRounds)) = 9

\* C3: for n >= 3 rounds the result is the arithmetic mean of the k(n) smallest
\* differentials rounded to one decimal; for the nine differentials 5..13 it
\* is 6.0, for 3 to 5 rounds it is the lowest differential rounded.
C3_MeanOfBest ==
    (Called /\ Len(callRounds) >= 3) =>
        /\ IsTenth(retHandicap)
        /\ WithinHalfTenth(retHandicap, StatedMean(callRounds))
        /\ Len(callRounds) <= 5 =>
              \E i \in 1..Len(callRounds) :
                 /\ \A j \in 1..Len(callRounds) :
                       ~NumLess(callRounds[j].differential, callRounds[i].differential)
                 /\ WithinHalfTenth(retHandicap, callRounds[i].differential)
        /\ (/\ Len(callRounds) = 9
            /\ {callRounds[i].differential : i \in 1..9} = {Int2Num(v) : v \in 5..13})
              => retHandicap = Int2Num(6)

C3_Witness ==
    /\ Called
    /\ Len(callRounds) = 9
    /\ {callRounds[i].differential : i \in 1..9} = {Int2Num(v) : v \in 5..13}
    /\ callRounds[1].differential # Int2Num(5)
    /\ retHandicap = Int2Num(6)

\* C4 as stated: whenever 10 x mean lies exactly halfway between two integers
\* the index is the neighbour farther from zero, for negative means as well.
C4_HalfAwayFromZero ==
    (Called /\ Len(callRounds) >= 3 /\ IsTie(StatedMean(callRounds))) =>
        retHandicap =
            IF NumLess(StatedMean(callRounds), Int2Num(0))
            THEN NumSub(StatedMean(callRounds), Q(1, 20))
            ELSE NumAdd(StatedMean(callRounds), Q(1, 20))

\* C4 amended: whenever 10 x mean lies exactly halfway between two integers
\* the index is the upper neighbour (Math.round sends a tie towards
\* +Infinity): farther from zero for a positive mean, nearer to zero for a
\* negative one.
C4_HalfTowardsPlusInfinity ==
    (Called /\ Len(callRounds) >= 3 /\ IsTie(StatedMean(callRounds))) =>
        retHandicap = NumAdd(StatedMean(callRounds), Q(1, 20))

C4_Witness ==
    /\ Called
    /\ Len(callRounds) >= 6
    /\ IsTie(StatedMean(callRounds))
    /\ NumLess(StatedMean(callRounds), Int2Num(0))
    /\ retHandicap = NumAdd(StatedMean(callRounds), Q(1, 20))

\* C5: every defined result is a multiple of 0.1 (ten times the index is an
\* integer), for every collection of 3 or more rounds.
C5_MultipleOfTenth ==
    (Called /\ Len(callRounds) >= 3) =>
        /\ IsFinite(retHandicap)
        /\ NumMul(retHandicap, Int2Num(10)).d = 1

C5_Witness ==
    /\ Called
    /\ Len(callRounds) >= 3
    /\ ~IsTenth(StatedMean(callRounds))
    /\ NumMul(retHandicap, Int2Num(10)).d = 1

\* C6: the result on a reordered collection equals the result on the
\* collection before the reordering.
C6_OrderInvariant ==
    [][(Called /\ callRounds' # callRounds) => retHandicap' = retHandicap]_vars

\* a collection in strictly descending order, which only a reordering yields
C6_Witness ==
    /\ Called
    /\ Len(callRounds) = 6
    /\ \A i \in 1..5 :
          NumLess(callRounds[i + 1].differential, callRounds[i].differential)
    /\ IsFinite(retHandicap)

\* C20: for every round count n >= 1 the HANDICAP_RULES table read at
\* min(n, 20) and the legacy if/else ladder give the same best-count, and on
\* every collection GolfHelpers.calculateHandicap and the legacy
\* GolfTracker.calculateHandicapForRounds return the same result.
C20_LegacyEquivalent ==
    /\ \A n \in 1..Len(callRounds) :
          /\ "count" \in DOMAIN handicapRule(n)
          /\ handicapRule(n).count = legacyRoundsToCount(n)
    /\ (Called /\ retLegacy # Pending) => retHandicap = retLegacy

\* 20 rounds, where the table reaches its last key and the ladder its last
\* branch
C20_Witness ==
    /\ Len(callRounds) = 20
    /\ IsFinite(retLegacy)
    /\ retHandicap = retLegacy
    /\ handicapRule(20).count = 9

----------------------------------------------------------------------------
(* Properties of the component *)

\* C12: no call of the component (update with updateDisplay and updateChart,
\* getHandicapTrend, getCurrentHandicap with calculateHandicap) changes the
\* rounds array it reads: the same rounds, in the same order, with the same
\* field values.
C12_NoMutation == [][callRounds' = callRounds]_vars

\* every call made on a collection of at least 6 rounds that is in neither
\* ascending nor descending order
C12_Witness ==
    /\ Len(callRounds) >= 6
    /\ hasData
    /\ Len(chartHistory) = Len(callRounds) - 2
    /\ Len(callHistory) = Len(callRounds) - 2
    /\ retTrend # "pending"
    /\ IsFinite(retHandicap)
    /\ \E i \in 1..(Len(callRounds) - 1) :
          NumLess(callRounds[i].differential, callRounds[i + 1].differential)
    /\ \E i \in 1..(Len(callRounds) - 1) :
          NumLess(callRounds[i + 1].differential, callRounds[i].differential)

\* the k oldest rounds of a collection kept most recent first
Oldest(data, k) == SubSeq(data, Len(data) - k + 1, Len(data))

\* C21: for a collection of n >= 6 rounds the index sequence that
\* HandicapCalculator.getHandicapTrend hands to the trend derivation has n - 2
\* values and its i-th value is the index of the i + 2 oldest rounds.
C21_HistoryOldestFirst ==
    (callHistory # <<>> /\ Len(callRounds) >= 6) =>
        /\ Len(callHistory) = Len(callRounds) - 2
        /\ \A i \in 1..Len(callHistory) :
              callHistory[i] = calculateHandicap(Oldest(callRounds, i + 2))

\* the window of the 20 most recent rounds
ChartWindow(data) == slice(data, 0, 20)

\* the i-th point is the index of the i + 2 oldest rounds of the window
StatedChart(data, history) ==
    /\ Len(history) = Len(ChartWindow(data)) - 2
    /\ \A i \in 1..Len(history) :
          history[i] = calculateHandicap(Oldest(ChartWindow(data), i + 2))

\* HandicapCalculator.updateChart draws the chart as stated
C22_ComponentChart ==
    (hasData /\ Len(callRounds) >= 3) => StatedChart(callRounds, chartHistory)

\* C22: the chart history of a collection of n >= 3 finite rounds has exactly
\* min(n, 20) - 2 points and its i-th point is the index of the i + 2 oldest
\* rounds of the window of the 20 most recent rounds, in
\* HandicapCalculator.updateChart and in the legacy updateHandicapChart.
C22_ChartOverWindow ==
    (callIds # <<>> /\ Len(callRounds) >= 3) =>
        StatedChart(callRounds, retLegacyChart)

\* C24: the index shown for a collection of more than 20 rounds is the
\* rounded mean of the 9 lowest differentials of ALL its rounds: a round older
\* than the 20 most recent ones still counts.
C24_WholeCollection ==
    (hasData /\ Len(callRounds) > 20) =>
        /\ IsTenth(handicapText)
        /\ WithinHalfTenth(handicapText, StatedMean(callRounds))
        /\ retHandicap \notin {Pending, Null} => retHandicap = handicapText

\* the oldest of more than 20 rounds has the lowest differential, and the
\* index shown is not the index of the 20 most recent rounds
C24_Witness ==
    /\ hasData
    /\ Len(callRounds) > 20
    /\ \A i \in 1..20 :
          NumLess(callRounds[Len(callRounds)].differential, callRounds[i].differential)
    /\ handicapText # calculateHandicap(slice(callRounds, 0, 20))
    /\ retHandicap = handicapText

----------------------------------------------------------------------------
(* Properties of the pages of the app *)

\* what the dashboard shows for an index
dashboardText(handicap) == IF handicap = Null THEN Text("N/A") ELSE handicap

\* C23: the dashboard's current-handicap element shows the index of the
\* current collection, and "N/A" exactly when it has fewer than 3 rounds.
C23_DashboardFresh ==
    /\ handicapText \in {dashboardText(h) : h \in calculateHandicapOutcomes(thisRounds)}
    /\ (handicapText = Text("N/A")) <=> (Len(thisRounds) < 3)

\* the data of the app and the three storage keys
dataVars ==
    <<thisSessions, thisRounds, thisSettings, storedSessions, storedRounds, storedSettings>>

\* C25: a clearData that was declined leaves sessions, rounds, settings and
\* storage unchanged; after a confirmed one sessions and rounds are empty, the
\* settings are the defaults and the three storage keys are removed.
C25_ClearOnlyWhenConfirmed ==
    [][clearData =>
          \/ UNCHANGED dataVars
          \/ /\ thisSessions' = <<>>
             /\ thisRounds' = <<>>
             /\ thisSettings' = DEFAULT_SETTINGS
             /\ storedSessions' = Absent
             /\ storedRounds' = Absent
             /\ storedSettings' = Absent]_vars

\* a confirmed clearData after a load that found a session and a round: the
\* header still counts them
C25_Witness ==
    /\ notification = "All data has been cleared"
    /\ headerStats.sessions > 0
    /\ headerStats.rounds > 0
    /\ thisSessions = <<>>
    /\ thisRounds = <<>>
    /\ thisSettings = DEFAULT_SETTINGS
    /\ storedSessions = Absent
    /\ storedRounds = Absent
    /\ storedSettings = Absent

\* C28: after any sequence of session submissions, round submissions and
\* confirmed clears the header shows the number of sessions, the number of
\* rounds and the handicap of the current data.
C28_HeaderInStep ==
    /\ headerStats.sessions = Len(thisSessions)
    /\ headerStats.rounds = Len(thisRounds)
    /\ headerStats.handicap \in
          {headerHandicapText(h) : h \in calculateHandicapOutcomes(thisRounds)}

\* C30: the total-sessions figure of the practice statistics is the number
\* of sessions, after a confirmed clearData that follows a logged session as
\* well; an element no script has written yet shows its markup.
C30_StatsFollowSessions ==
    \/ totalSessionsText = InitialMarkup
    \/ totalSessionsText = Int2Num(Len(thisSessions))

\* what a place reporting the index shows when it shows `unavailable` for an
\* undefined index and the number otherwise
Reported(handicap, unavailable) == IF handicap = Null THEN Text(unavailable) ELSE handicap

\* C29: the dashboard, the header and the coaching system prompt show their
\* "not available" text exactly when the index is undefined; every defined
\* index, 0.0 included, is reported as its number.
C29_UnavailableOnlyWhenUndefined ==
    LET handicap == calculateHandicap(callRounds)
    IN  /\ hasData => handicapText = Reported(handicap, "N/A")
        /\ headerStats.rounds = Len(callRounds)
              => headerStats.handicap = Reported(handicap, "N/A")
        /\ promptHandicap # Pending
              => promptHandicap = Reported(handicap, "Not established (need 3+ rounds)")

----------------------------------------------------------------------------
(* Properties of the coaching chat *)

\* the step ends with a reply appended to the chat
AddsReply == chat' # chat /\ ~chat'[Len(chat')].loading

newReply == chat'[Len(chat')]

\* the text of the m-th message, as the chat shows it
messageText(entries, m) ==
    LET i == CHOOSE i \in 1..Len(entries) :
                 entries[i].message = m /\ entries[i].sender = "user"
    IN  entries[i].text.words

localResponse(m) == generateCoachingResponse(messageText(chat', m), thisSessions, thisRounds)

\* C26: the external service answers only when an API key is set, and
\* whenever it is not used or its call fails the reply shown is the local
\* rule-based response.
C26_LocalFallback ==
    [][AddsReply =>
          /\ newReply.text \in ServiceReplies => apiKey # Null
          /\ (newReply.message \notin inFlight \/ newReply.text \notin ServiceReplies)
                => newReply.text = localResponse(newReply.message)]_vars

\* what the chat does show: a call of the external service starts only when
\* an API key is set; the reply to a message sent without a key is the local
\* rule-based response, or the error text when computing it throws; the reply
\* to a message whose call was made is the service's text, or the error text
\* when the call fails
RepliesShown ==
    [][/\ (inFlight' \ inFlight) # {} => apiKey # Null
       /\ AddsReply =>
             IF newReply.message \in inFlight
             THEN \/ newReply.text \in ServiceReplies
                  \/ \E error \in ServiceErrors : newReply.text = errorText(error)
             ELSE /\ apiKey = Null
                  /\ newReply.text =
                        IF localResponse(newReply.message).kind = "thrown"
                        THEN errorText(localResponse(newReply.message))
                        ELSE localResponse(newReply.message)]_vars

entriesOf(m, sender) ==
    {i \in 1..Len(chat) : chat[i].message = m /\ chat[i].sender = sender}

\* one user entry and one AI entry for every message sent, the AI entry the
\* placeholder exactly while the call is awaited
OneReplyEach ==
    /\ Len(chat) = 2 * sentCount
    /\ \A m \in 1..sentCount :
          /\ Cardinality(entriesOf(m, "user")) = 1
          /\ Cardinality(entriesOf(m, "ai")) = 1
          /\ \A i \in entriesOf(m, "ai") : chat[i].loading <=> m \in inFlight

Replied(m) ==
    /\ m \notin inFlight
    /\ \E i \in entriesOf(m, "ai") : ~chat[i].loading

\* C27: every non-empty coaching message gets exactly one reply: one user
\* entry and one placeholder are added, and eventually the placeholder is gone
\* and exactly one AI entry stands for the message, when the call fails and
\* with several messages in flight as well.
C27_ExactlyOneReply ==
    /\ []OneReplyEach
    /\ \A m \in 1..MaxMessages : (sentCount >= m) ~> Replied(m)

\* two messages were in flight together: the second was answered first, by
\* the error text of its failed call
C27_Witness ==
    /\ sentCount = 2
    /\ inFlight = {}
    /\ Len(chat) = 4
    /\ chat[1].sender = "user" /\ chat[2].sender = "user"
    /\ chat[3].message = 2 /\ chat[3].text.kind = "errorText"
    /\ chat[4].message = 1 /\ chat[4].text \in ServiceReplies

----------------------------------------------------------------------------
(* Properties of the round submission *)

\* C7: every round of the collection whose slopeRating is > 0 carries
\* differential = (totalScore - courseRating) * 113 / slopeRating exactly,
\* unrounded and unclamped: negative when the score is below the course rating.
C7_DifferentialFormula ==
    \A i \in 1..Len(thisRounds) :
        LET r == thisRounds[i]
            s == r.totalScore
            c == r.courseRating
            p == r.slopeRating
        IN  (IsFinite(s) /\ IsFinite(c) /\ IsFinite(p) /\ p.n > 0) =>
                /\ IsFinite(r.differential)
                /\ r.differential.n * (s.d * c.d * p.n)
                      = r.differential.d * ((s.n * c.d - c.n * s.d) * 113 * p.d)
                /\ NumLess(s, c) => r.differential.n < 0

\* the round just submitted: 70 on a 72.5 / 130 course, -2.173...
C7_Witness ==
    /\ Len(thisRounds) >= 2
    /\ notification = "Round logged successfully!"
    /\ thisRounds[1].totalScore = Int2Num(70)
    /\ thisRounds[1].slopeRating = Int2Num(130)
    /\ thisRounds[1].differential = Q(-113, 52)
    /\ storedRounds.value[1].differential = Q(-113, 52)

\* C19: calculateDifferential with slopeRating zero returns a non-finite
\* number (NaN when the score equals the course rating, otherwise the infinity
\* of the sign of score - courseRating) and raises no error; no input is
\* bounds-checked: every non-zero slope, in or out of 55..155, and every score
\* and rating yield the value of the formula.
C19_NoBoundsCheck ==
    retDifferential # Pending =>
        LET s == callArgs[1]
            c == callArgs[2]
            p == callArgs[3]
            r == retDifferential
        IN  /\ IsNumber(r)
            /\ p.n = 0 =>
                  /\ ~IsFinite(r)
                  /\ IsNaN(r) <=> (s = c)
                  /\ NumLess(c, s) => r = Infinity
                  /\ NumLess(s, c) => r = NegInfinity
            /\ p.n # 0 =>
                  /\ IsFinite(r)
                  /\ r.n * (s.d * c.d * p.n) = r.d * ((s.n * c.d - c.n * s.d) * 113 * p.d)

C19_Witness ==
    /\ callArgs # <<>>
    /\ callArgs[3] = Int2Num(0)
    /\ callArgs[1] = callArgs[2]
    /\ IsNaN(retDifferential)

\* C13: within a run of the app (the steps between two loads of the page) a
\* round submission (the step that saves a longer collection) puts the new
\* round at position 0 and leaves the earlier rounds behind it, unchanged and
\* in the same order; every other change of the collection is a confirmed
\* clearData, which empties it and the storage.
C13_PrependOrClear ==
    [][ /\ Len(getRounds(storedRounds')) > Len(getRounds(storedRounds)) =>
              /\ Len(thisRounds') = Len(thisRounds) + 1
              /\ thisRounds'[1].id = now
        /\ \/ thisRounds' = thisRounds
           \/ /\ Len(thisRounds') = Len(thisRounds) + 1
              /\ Tail(thisRounds') = thisRounds
              /\ getRounds(storedRounds') # <<>>
           \/ /\ thisRounds' = <<>>
              /\ storedRounds' = Absent
              /\ notification' = "All data has been cleared"
           \/ Reload ]_vars

\* two different rounds submitted after a clear of three (the chart of the
\* cleared collection is still on the canvas)
C13_Witness ==
    /\ Len(thisRounds) = 2
    /\ thisRounds[1].differential # thisRounds[2].differential
    /\ chartHistory # <<>>
    /\ storedRounds # Absent
    /\ notification = "Round logged successfully!"

\* C14: after every completed round submission and every confirmed clearData
\* the rounds held in storage (a missing key reading as the empty collection)
\* equal the rounds collection in memory, so that loading the page again
\* restores exactly the collection held before.
C14_PersistedVerbatim == getRounds(storedRounds) = thisRounds

\* C15: no two rounds of the collection have the same id, however quickly the
\* submissions follow each other.
C15_UniqueIds ==
    \A i, j \in 1..Len(thisRounds) : i # j => thisRounds[i].id # thisRounds[j].id

\* C16: no step changes the differential of a round that stays in the
\* collection (the collection grows at the front, so a round keeps its
\* distance from the end), and a new round's differential is a function of
\* its own totalScore, courseRating and slopeRating.
C16_DifferentialFixed ==
    [][ /\ Len(thisRounds') >= Len(thisRounds) =>
              \A k \in 1..Len(thisRounds) :
                  thisRounds'[Len(thisRounds') + 1 - k].differential
                      = thisRounds[Len(thisRounds) + 1 - k].differential
        /\ Len(thisRounds') = Len(thisRounds) + 1 =>
              thisRounds'[1].differential
                  = calculateDifferential(thisRounds'[1].totalScore,
                                          thisRounds'[1].courseRating,
                                          thisRounds'[1].slopeRating) ]_vars

\* C17: a round whose computed differential is non-finite is never added to
\* the rounds collection: every round of the collection has a finite
\* differential.
C17_NonFiniteRejected ==
    \A i \in 1..Len(thisRounds) : IsFinite(thisRounds[i].differential)

\* C18: every round of the collection has a slopeRating within 55..155.
C18_SlopeWithinRange ==
    \A i \in 1..Len(thisRounds) :
        /\ IsFinite(thisRounds[i].slopeRating)
        /\ ~NumLess(thisRounds[i].slopeRating, Int2Num(55))
        /\ ~NumLess(Int2Num(155), thisRounds[i].slopeRating)

----------------------------------------------------------------------------
(* Properties of the trend derivation *)

\* x to one decimal
NearestTenth(x) == Q((20 * x.n + x.d) \div (2 * x.d), 10)

MeanOfThree(a, b, c) == NumDiv(NumAdd(NumAdd(a, b), c), Int2Num(3))

\* (mean of the last 3, to one decimal) - (mean of the 3 before, to one decimal)
StatedDelta(h) ==
    LET n == Len(h)
    IN  NumSub(NearestTenth(MeanOfThree(h[n - 2], h[n - 1], h[n])),
               NearestTenth(MeanOfThree(h[n - 5], h[n - 4], h[n - 3])))

C9_StableBelowSix ==
    (retTrend # "pending" /\ Len(callHistory) < 6) => retTrend = "stable"

\* C9 amended: the trend derivation returns 'stable' for every index sequence
\* of fewer than 4 values (lengths 0 to 3), whatever the values; a non-stable
\* label is possible only from 4 index values on.
C9_StableBelowFour ==
    (retTrend # "pending" /\ Len(callHistory) < 4) => retTrend = "stable"

C9_Witness ==
    /\ Len(callHistory) = 3
    /\ NumLess(NumAdd(callHistory[3], Int2Num(1)), callHistory[1])
    /\ retTrend = "stable"

\* C10: getHandicapTrend returns one of 'improving', 'declining', 'stable' for
\* every index sequence and calculateHandicap returns null or a number for
\* every collection with finite differentials, the empty ones included;
\* neither raises an error.
C10_Total ==
    /\ retTrend # "pending" => retTrend \in {"improving", "declining", "stable"}
    /\ Called => (retHandicap = Null \/ IsFinite(retHandicap))

C10_Witness ==
    /\ callRounds = <<>>
    /\ callHistory = <<>>
    /\ retHandicap = Null
    /\ retTrend = "stable"

====
